---- MODULE Spec2Model ----
(***************************************************************************)
(* CGM analyzer (src/ui.py): the Libre and Dexcom CSV decoders with their  *)
(* high-glucose episode trackers, the metrics calculator and the grader.   *)
(*                                                                         *)
(* Units.  An instant is a number of minutes since 2024-01-01 00:00, a     *)
(* date is a number of days since 2024-01-01.  average_glucose and         *)
(* glucose_std_dev are floats rounded to one decimal and are held in       *)
(* tenths; average_spike_periods_per_day is rounded to two decimals and is *)
(* held in hundredths.  A CSV row is the tuple of its cells, each a string.*)
(***************************************************************************)
EXTENDS Integers, Sequences, FiniteSets, TLC

VARIABLES
    pc,                      \* "idle": the event loop waits; "rows": inside parse's for loop
    runs,                    \* number of clicks on Analyze so far
    nread,                   \* number of CSV rows read so far, over all runs
    parser,                  \* get_active_parser(): "libre", "dexcom" or None
    rows,                    \* the rows the csv reader has yielded so far in this run
    glucose_values,          \* parse's locals
    dates,
    high_glucose_count,
    high_glucose_periods,
    in_high_glucose_period,
    last_high_glucose_time,
    skip,
    header,                  \* LibreParser: header; DexcomParser: the DictReader's fieldnames
    reached,                 \* how far analyze_data got in this run
    error,                   \* the exception analyze_data caught and printed in this run, or None
    metrics,                 \* analyze_data's local metrics
    chart,                   \* what chart_view shows
    result_label,            \* what result_label shows
    gpc,                     \* calculate_grade's position
    avg_glucose,             \* calculate_grade's parameters and local
    std_dev,
    spikes_per_day,
    grade_tot,
    grade

vars == <<pc, runs, nread, parser, rows, glucose_values, dates, high_glucose_count,
          high_glucose_periods, in_high_glucose_period, last_high_glucose_time,
          skip, header, reached, error, metrics, chart, result_label,
          gpc, avg_glucose, std_dev, spikes_per_day, grade_tot, grade>>

parse_locals == <<glucose_values, dates, high_glucose_count, high_glucose_periods,
                  in_high_glucose_period, last_high_glucose_time, skip, header>>

grade_frame == <<gpc, avg_glucose, std_dev, spikes_per_day, grade_tot, grade>>

-----------------------------------------------------------------------------
(* Bounds of the model *)

\* rows read over all the runs of one behaviour
MaxRows == 4

\* clicks on Analyze in one behaviour
MaxRuns == 2

-----------------------------------------------------------------------------
(* Python values *)

\* Python's None; no cell of the inputs below has this text
None == "None"

\* last_high_glucose_time = None (an instant is never negative)
NoTime == -1

\* timedelta(hours=1), in minutes
Hour == 60

\* minutes of one calendar day: datetime.date() drops the time of day
MinutesPerDay == 1440

\* the high-glucose threshold, mg/dL
HighGlucose == 140

\* the empty dict
EmptyDict == [k \in {} |-> 0]

\* an expression's value, or the exception it raises
Return(v) == [exc |-> None, val |-> v]

Raise(e) == [exc |-> e, val |-> 0]

\* int(text) on the texts of the inputs: decimal digits give the number, any
\* other string raises ValueError, None raises TypeError
PyInt(text) ==
    CASE text = None  -> Raise("TypeError")
      [] text = "80"  -> Return(80)
      [] text = "140" -> Return(140)
      [] text = "150" -> Return(150)
      [] text = "155" -> Return(155)
      [] text = "160" -> Return(160)
      [] OTHER        -> Raise("ValueError")

\* datetime.strptime(text, fmt) on the texts of the inputs: the instant when
\* text is written in fmt, ValueError otherwise
Strptime(text, fmt) ==
    CASE fmt = "%m-%d-%Y %I:%M %p" ->
           (CASE text = "01-01-2024 12:00 AM" -> Return(0)
              [] text = "01-01-2024 12:05 AM" -> Return(5)
              [] text = "01-02-2024 12:00 AM" -> Return(MinutesPerDay)
              [] OTHER -> Raise("ValueError"))
      [] fmt = "%m/%d/%Y %H:%M" ->
           (CASE text = "01/01/2024 00:30" -> Return(30)
              [] text = "01/01/2024 01:30" -> Return(90)
              [] OTHER -> Raise("ValueError"))
      [] fmt = "%m/%d/%y %H:%M" ->
           (CASE text = "01/01/24 00:40" -> Return(40)
              [] OTHER -> Raise("ValueError"))
      [] OTHER -> Raise("ValueError")

\* datetime.fromisoformat(text) on the texts of the inputs; None raises TypeError
FromIsoFormat(text) ==
    CASE text = None -> Raise("TypeError")
      [] text = "2024-01-01T00:00:00" -> Return(0)
      [] text = "2024-01-01T00:05:00" -> Return(5)
      [] text = "2024-01-01T00:30:00" -> Return(30)
      [] text = "2024-01-01T00:40:00" -> Return(40)
      [] text = "2024-01-01T01:30:00" -> Return(90)
      [] text = "2024-01-02T00:00:00" -> Return(MinutesPerDay)
      [] OTHER -> Raise("ValueError")

\* datetime.date()
DateOf(t) == t \div MinutesPerDay

\* dict.get(key, None)
DictGet(d, key) == IF key \in DOMAIN d THEN d[key] ELSE None

\* the column a dict built from header keeps for name: the last one of that name
ColumnOf(hdr, name) ==
    CHOOSE i \in 1..Len(hdr) :
        hdr[i] = name /\ \A j \in (i + 1)..Len(hdr) : hdr[j] # name

-----------------------------------------------------------------------------
(* parse's locals *)

Locals ==
    [glucose_values |-> glucose_values, dates |-> dates,
     high_glucose_count |-> high_glucose_count,
     high_glucose_periods |-> high_glucose_periods,
     in_high_glucose_period |-> in_high_glucose_period,
     last_high_glucose_time |-> last_high_glucose_time,
     skip |-> skip, header |-> header]

\* LibreParser.parse before it opens the file.  header = None is held as the
\* empty tuple: the code never reads header while skip is True.
LibreLocals ==
    [glucose_values |-> <<>>, dates |-> {},
     high_glucose_count |-> 0, high_glucose_periods |-> 0,
     in_high_glucose_period |-> FALSE, last_high_glucose_time |-> NoTime,
     skip |-> TRUE, header |-> <<>>]

\* mutant: the tracker is kept on the parser between calls of parse
DexcomLocals_KeptOnParser ==
    [glucose_values |-> glucose_values, dates |-> dates,
     high_glucose_count |-> high_glucose_count,
     high_glucose_periods |-> high_glucose_periods,
     in_high_glucose_period |-> in_high_glucose_period,
     last_high_glucose_time |-> last_high_glucose_time,
     skip |-> FALSE, header |-> <<>>]

\* DexcomParser.parse before it opens the file.  It has no skip; header holds
\* the DictReader's fieldnames, unread until the first row is read.
DexcomLocals ==
    [glucose_values |-> <<>>, dates |-> {},
     high_glucose_count |-> 0, high_glucose_periods |-> 0,
     in_high_glucose_period |-> FALSE, last_high_glucose_time |-> NoTime,
     skip |-> FALSE, header |-> <<>>]

\* the loop body raised e with the locals at s
Raised(e, s) == [exc |-> e, val |-> s]

-----------------------------------------------------------------------------
(* LibreParser.parse, one row *)

\* {header[i]: row[i] for i in range(len(header))}, for len(row) >= len(header)
LibreDataDict(hdr, row) ==
    [name \in {hdr[i] : i \in 1..Len(hdr)} |-> row[ColumnOf(hdr, name)]]

\* mutant: the filter only asks that the row has a record type
LibreRecordTypeOk_AnyType(data_dict) == DictGet(data_dict, "Record Type") # None

\* the record-type filter lets the row through
LibreRecordTypeOk(data_dict) == DictGet(data_dict, "Record Type") = "0"

\* historic_glucose_value or scan_glucose_value
LibreGlucoseText(data_dict) ==
    LET historic == DictGet(data_dict, "Historic Glucose mg/dL")
        scan     == DictGet(data_dict, "Scan Glucose mg/dL")
    IN  IF historic # None /\ historic # "" THEN historic ELSE scan

\* mutant: only the first format is tried
LibreTimestamp_FirstFormatOnly(data_dict) ==
    IF "Device Timestamp" \notin DOMAIN data_dict THEN Raise("KeyError")
    ELSE Strptime(data_dict["Device Timestamp"], "%m-%d-%Y %I:%M %p")

\* the three strptime attempts on data_dict["Device Timestamp"], in order
LibreTimestamp(data_dict) ==
    IF "Device Timestamp" \notin DOMAIN data_dict THEN Raise("KeyError")
    ELSE LET text   == data_dict["Device Timestamp"]
             first  == Strptime(text, "%m-%d-%Y %I:%M %p")
             second == Strptime(text, "%m/%d/%Y %H:%M")
             third  == Strptime(text, "%m/%d/%y %H:%M")
         IN  IF first.exc = None THEN first
             ELSE IF second.exc = None THEN second
             ELSE third

\* mutant: a new period needs more than one hour
LibreNewPeriod_OverAnHour(in_period, last_time, current_time) ==
    \/ ~in_period
    \/ (last_time # NoTime /\ current_time - last_time > Hour)

\* the condition under which a high reading starts a new period
LibreNewPeriod(in_period, last_time, current_time) ==
    \/ ~in_period
    \/ (last_time # NoTime /\ current_time - last_time >= Hour)

\* mutant: a reading below the threshold leaves the period open
LibreTrack_LowKeepsPeriod(s, v, t) ==
    LET d == [s EXCEPT !.dates = @ \cup {DateOf(t)}]
    IN  IF v >= HighGlucose
        THEN LET new == LibreNewPeriod(s.in_high_glucose_period,
                                       s.last_high_glucose_time, t)
             IN  [d EXCEPT !.high_glucose_count = @ + 1,
                           !.high_glucose_periods = IF new THEN @ + 1 ELSE @,
                           !.in_high_glucose_period = IF new THEN TRUE ELSE @,
                           !.last_high_glucose_time = t]
        ELSE d

\* mutant: the high reading is counted only when it continues a period
LibreTrack_CountWhenContinuing(s, v, t) ==
    LET d == [s EXCEPT !.dates = @ \cup {DateOf(t)}]
    IN  IF v >= HighGlucose
        THEN LET new == ~s.in_high_glucose_period
                        \/ (s.last_high_glucose_time # NoTime
                            /\ t - s.last_high_glucose_time >= Hour)
             IN  [d EXCEPT !.high_glucose_count = IF new THEN @ ELSE @ + 1,
                           !.high_glucose_periods = IF new THEN @ + 1 ELSE @,
                           !.in_high_glucose_period = IF new THEN TRUE ELSE @,
                           !.last_high_glucose_time = t]
        ELSE [d EXCEPT !.in_high_glucose_period = FALSE]

\* dates.add and the episode tracking for a reading of value v at instant t
LibreTrack(s, v, t) ==
    LET d == [s EXCEPT !.dates = @ \cup {DateOf(t)}]
    IN  IF v >= HighGlucose
        THEN LET new == LibreNewPeriod(s.in_high_glucose_period,
                                       s.last_high_glucose_time, t)
             IN  [d EXCEPT !.high_glucose_count = @ + 1,
                           !.high_glucose_periods = IF new THEN @ + 1 ELSE @,
                           !.in_high_glucose_period = IF new THEN TRUE ELSE @,
                           !.last_high_glucose_time = t]
        ELSE [d EXCEPT !.in_high_glucose_period = FALSE]

\* one iteration of the for loop over csv.reader's rows
LibreRow(s, row) ==
    IF Len(row) = 0 THEN Raised("IndexError", s)            \* row[0] of a blank row
    ELSE IF row[1] = "Device"
    THEN Return([s EXCEPT !.skip = FALSE, !.header = row])
    ELSE IF s.skip THEN Return(s)
    ELSE IF Len(row) < Len(s.header) THEN Raised("IndexError", s)   \* row[i]
    ELSE
      LET data_dict == LibreDataDict(s.header, row)
      IN  IF ~LibreRecordTypeOk(data_dict) THEN Return(s)
          ELSE
            LET g == PyInt(LibreGlucoseText(data_dict))
            IN  IF g.exc # None THEN Return(s)       \* except (ValueError, TypeError)
                ELSE
                  LET a  == [s EXCEPT !.glucose_values = Append(@, g.val)]
                      ts == LibreTimestamp(data_dict)
                  IN  IF ts.exc = "ValueError" THEN Return(a)    \* continue
                      ELSE IF ts.exc # None THEN Raised(ts.exc, a)
                      ELSE Return(LibreTrack(a, g.val, ts.val))

-----------------------------------------------------------------------------
(* DexcomParser.parse, one row *)

\* csv.DictReader's row: dict(zip(fieldnames, row)), a missing cell None
DexcomDictRow(fieldnames, row) ==
    [name \in {fieldnames[i] : i \in 1..Len(fieldnames)} |->
        IF ColumnOf(fieldnames, name) <= Len(row)
        THEN row[ColumnOf(fieldnames, name)] ELSE None]

\* d[key]
DictItem(d, key) == IF key \in DOMAIN d THEN Return(d[key]) ELSE Raise("KeyError")

\* the event-type filter lets the row through
DexcomEventTypeOk(event_type) == event_type = "EGV"

\* mutant: the hour is measured in either direction
DexcomNewPeriod_EitherDirection(in_period, last_time, current_time) ==
    \/ ~in_period
    \/ (last_time # NoTime /\ current_time - last_time >= Hour)
    \/ (last_time # NoTime /\ last_time - current_time >= Hour)

\* mutant: a high reading within the hour of the last one joins its period
\* even after a reading below the threshold
DexcomNewPeriod_MergeWithinHour(in_period, last_time, current_time) ==
    \/ last_time = NoTime
    \/ current_time - last_time >= Hour

\* the condition under which a high reading starts a new period
DexcomNewPeriod(in_period, last_time, current_time) ==
    \/ ~in_period
    \/ (last_time # NoTime /\ current_time - last_time >= Hour)

\* mutant: a reading of exactly 140 is not high
DexcomTrack_HighAbove140(s, v, t) ==
    LET d == [s EXCEPT !.dates = @ \cup {DateOf(t)}]
    IN  IF v > HighGlucose
        THEN LET new == DexcomNewPeriod(s.in_high_glucose_period,
                                        s.last_high_glucose_time, t)
             IN  [d EXCEPT !.high_glucose_count = @ + 1,
                           !.high_glucose_periods = IF new THEN @ + 1 ELSE @,
                           !.in_high_glucose_period = IF new THEN TRUE ELSE @,
                           !.last_high_glucose_time = t]
        ELSE [d EXCEPT !.in_high_glucose_period = FALSE]

\* mutant: a reading below the threshold also forgets the last high instant
DexcomTrack_LowForgetsLastHigh(s, v, t) ==
    LET d == [s EXCEPT !.dates = @ \cup {DateOf(t)}]
    IN  IF v >= HighGlucose
        THEN LET new == DexcomNewPeriod(s.in_high_glucose_period,
                                        s.last_high_glucose_time, t)
             IN  [d EXCEPT !.high_glucose_count = @ + 1,
                           !.high_glucose_periods = IF new THEN @ + 1 ELSE @,
                           !.in_high_glucose_period = IF new THEN TRUE ELSE @,
                           !.last_high_glucose_time = t]
        ELSE [d EXCEPT !.in_high_glucose_period = FALSE,
                       !.last_high_glucose_time = NoTime]

\* dates.add and the episode tracking for a reading of value v at instant t
DexcomTrack(s, v, t) ==
    LET d == [s EXCEPT !.dates = @ \cup {DateOf(t)}]
    IN  IF v >= HighGlucose
        THEN LET new == DexcomNewPeriod(s.in_high_glucose_period,
                                        s.last_high_glucose_time, t)
             IN  [d EXCEPT !.high_glucose_count = @ + 1,
                           !.high_glucose_periods = IF new THEN @ + 1 ELSE @,
                           !.in_high_glucose_period = IF new THEN TRUE ELSE @,
                           !.last_high_glucose_time = t]
        ELSE [d EXCEPT !.in_high_glucose_period = FALSE]

\* one row of the csv reader under the DictReader: the first row of the file
\* becomes the fieldnames, a blank row is dropped, any other row runs the
\* body of the for loop
DexcomRow(s, line_num, row) ==
    IF line_num = 0 THEN Return([s EXCEPT !.header = row])
    ELSE IF row = <<>> THEN Return(s)
    ELSE
      LET d  == DexcomDictRow(s.header, row)
          et == DictItem(d, "Event Type")
          gt == DictItem(d, "Glucose Value (mg/dL)")
          tt == DictItem(d, "Timestamp (YYYY-MM-DDThh:mm:ss)")
      IN  IF et.exc # None THEN Raised(et.exc, s)
          ELSE IF ~DexcomEventTypeOk(et.val) THEN Return(s)
          ELSE IF gt.exc # None THEN Raised(gt.exc, s)
          ELSE
            LET g == PyInt(gt.val)
            IN  IF g.exc = "ValueError" THEN Return(s)      \* except ValueError
                ELSE IF g.exc # None THEN Raised(g.exc, s)  \* TypeError is not caught
                ELSE
                  LET a  == [s EXCEPT !.glucose_values = Append(@, g.val)]
                      ts == IF tt.exc # None THEN tt ELSE FromIsoFormat(tt.val)
                  IN  IF ts.exc = "ValueError" THEN Return(a)
                      ELSE IF ts.exc # None THEN Raised(ts.exc, a)
                      ELSE Return(DexcomTrack(a, g.val, ts.val))

-----------------------------------------------------------------------------
(* parse over a whole file *)

RECURSIVE LibreParse(_, _)
\* LibreParser.parse's loop over the rows rs, from the locals s
LibreParse(s, rs) ==
    IF rs = <<>> THEN Return(s)
    ELSE LET r == LibreRow(s, Head(rs))
         IN  IF r.exc # None THEN r ELSE LibreParse(r.val, Tail(rs))

RECURSIVE DexcomParse(_, _, _)
\* DexcomParser.parse's loop over the rows rs, from the locals s
DexcomParse(s, line_num, rs) ==
    IF rs = <<>> THEN Return(s)
    ELSE LET r == DexcomRow(s, line_num, Head(rs))
         IN  IF r.exc # None THEN r ELSE DexcomParse(r.val, line_num + 1, Tail(rs))

\* parse on a file of the rows rs
Parse(p, rs) ==
    IF p = "libre" THEN LibreParse(LibreLocals, rs)
    ELSE DexcomParse(DexcomLocals, 0, rs)

-----------------------------------------------------------------------------
(* CGMAnalyzer.calculate_grade *)

\* the average's sub-score; avg in tenths of mg/dL
AverageScore(avg) ==
    IF avg < 100 * 10 THEN 4
    ELSE IF avg < 110 * 10 THEN 3
    ELSE IF avg >= 110 * 10 THEN 2
    ELSE 0

\* mutant: the thresholds belong to the band below them
StdDevScore_InclusiveAbove(sd) ==
    IF sd <= 15 * 10 THEN 4
    ELSE IF sd <= 20 * 10 THEN 3
    ELSE 2

\* the standard deviation's sub-score; sd in tenths of mg/dL
StdDevScore(sd) ==
    IF sd < 15 * 10 THEN 4
    ELSE IF sd < 20 * 10 THEN 3
    ELSE IF sd >= 20 * 10 THEN 2
    ELSE 0

\* the sub-score of the spike periods per day; spd in hundredths
SpikesScore(spd) ==
    IF spd < 1 * 100 THEN 4
    ELSE IF spd < 2 * 100 THEN 3
    ELSE IF spd >= 2 * 100 THEN 2
    ELSE 0

\* mutant: B+ from 10 up
GradeOf_BPlusFromTen(tot) ==
    IF tot >= 12 THEN "A"
    ELSE IF tot >= 10 THEN "B+"
    ELSE IF tot >= 9 THEN "B"
    ELSE IF tot >= 8 THEN "B-"
    ELSE "C"

\* the letter of a total
GradeOf(tot) ==
    IF tot >= 12 THEN "A"
    ELSE IF tot >= 11 THEN "B+"
    ELSE IF tot >= 9 THEN "B"
    ELSE IF tot >= 8 THEN "B-"
    ELSE "C"

\* calculate_grade as calculate_metrics calls it
CalculateGrade(avg, sd, spd) ==
    GradeOf(AverageScore(avg) + StdDevScore(sd) + SpikesScore(spd))

-----------------------------------------------------------------------------
(* CGMAnalyzer.calculate_metrics *)

RECURSIVE SumSeq(_)
\* sum(values)
SumSeq(values) ==
    IF values = <<>> THEN 0 ELSE Head(values) + SumSeq(Tail(values))

RECURSIVE SumSquares(_)
SumSquares(values) ==
    IF values = <<>> THEN 0
    ELSE Head(values) * Head(values) + SumSquares(Tail(values))

\* round(num / den) for num >= 0 and den > 0: to the nearest integer, a tie
\* to the even one.  Python rounds the float quotient; it is a tie only when
\* the quotient is one exactly, which the float then holds exactly.
RoundHalfEven(num, den) ==
    LET q == num \div den
        r == num % den
    IN  IF 2 * r < den THEN q
        ELSE IF 2 * r > den THEN q + 1
        ELSE IF q % 2 = 0 THEN q ELSE q + 1

RECURSIVE FloorSqrt(_, _, _, _)
\* the largest j in lo..hi with j * j * den <= num
FloorSqrt(num, den, lo, hi) ==
    IF lo >= hi THEN lo
    ELSE LET mid == (lo + hi + 1) \div 2
         IN  IF mid * mid * den <= num
             THEN FloorSqrt(num, den, mid, hi)
             ELSE FloorSqrt(num, den, lo, mid - 1)

\* round(statistics.stdev(values), 1) in tenths, for two values or more: the
\* sample variance is D / (n (n - 1)) with D = n * sum(x^2) - sum(x)^2, and
\* the nearest tenth to its root is k with (2k - 1)^2 <= 400 D / (n (n - 1))
\* < (2k + 1)^2.  No tie occurs below 16 values.
StdDevTenths(values) ==
    LET n == Len(values)
        D == n * SumSquares(values) - SumSeq(values) * SumSeq(values)
        j == FloorSqrt(400 * D, n * (n - 1), 0, 4000)
    IN  (j + 1) \div 2

\* calculate_metrics(data): {} for no values, else the metrics dict
CalculateMetrics(data) ==
    IF data.glucose_values = <<>> THEN EmptyDict
    ELSE
      LET count      == Len(data.glucose_values)
          average    == IF count > 0
                        THEN RoundHalfEven(10 * SumSeq(data.glucose_values), count)
                        ELSE 0
          deviation  == IF count > 1 THEN StdDevTenths(data.glucose_values) ELSE 0
          total_days == Cardinality(data.dates)
          per_day    == IF total_days # 0
                        THEN RoundHalfEven(100 * data.high_glucose_periods, total_days)
                        ELSE 0
      IN  [average_glucose |-> average,
           glucose_std_dev |-> deviation,
           high_glucose_count |-> data.high_glucose_count,
           average_spike_periods_per_day |-> per_day,
           grade |-> CalculateGrade(average, deviation, per_day)]

\* the GlucoseData parse returns
GlucoseData(s) ==
    [glucose_values |-> s.glucose_values, dates |-> s.dates,
     high_glucose_count |-> s.high_glucose_count,
     high_glucose_periods |-> s.high_glucose_periods]

\* plot_data(data, metrics): min() of no values raises ValueError before the
\* chart is set; otherwise the chart shows the values
PlotData(data, m) ==
    IF data.glucose_values = <<>> THEN Raise("ValueError")
    ELSE IF "average_glucose" \notin DOMAIN m THEN Raise("KeyError")
    ELSE Return(data.glucose_values)

\* display_results(metrics): the label shows the metrics
DisplayResults(m) ==
    IF DOMAIN m = {} THEN Raise("KeyError") ELSE Return(m)

-----------------------------------------------------------------------------
(* Inputs *)

\* self.file_path when Analyze is clicked: none selected, a path that cannot
\* be opened, a CSV file
FilePaths == {None, "missing.csv", "data.csv"}

\* the radio button checked when Analyze is clicked; with "levels", as with no
\* button checked, get_active_parser returns None
Toggles == {"libre", "dexcom", "levels"}

LibreHeader ==
    <<"Device", "Device Timestamp", "Record Type",
      "Historic Glucose mg/dL", "Scan Glucose mg/dL">>

\* rows of a Libre export.  Readings: 150@0:00, 160@0:30 (scan), 155@0:40,
\* 160@1:30, 80@0:05, 140@next day 0:00.  Then a row of another record type,
\* a row with no glucose text, a row whose timestamp has no Libre format, a
\* two-cell row (a preamble line; after the header a row shorter than it),
\* and a blank row.
LibreRows ==
    { LibreHeader,
      <<"FreeStyle Libre", "01-01-2024 12:00 AM", "0", "150", "">>,
      <<"FreeStyle Libre", "01/01/2024 00:30", "0", "", "160">>,
      <<"FreeStyle Libre", "01/01/24 00:40", "0", "155", "">>,
      <<"FreeStyle Libre", "01/01/2024 01:30", "0", "160", "">>,
      <<"FreeStyle Libre", "01-01-2024 12:05 AM", "0", "80", "">>,
      <<"FreeStyle Libre", "01-02-2024 12:00 AM", "0", "140", "">>,
      <<"FreeStyle Libre", "01-01-2024 12:05 AM", "6", "150", "">>,
      <<"FreeStyle Libre", "01-01-2024 12:05 AM", "0", "", "">>,
      <<"FreeStyle Libre", "2024-01-01T00:40:00", "0", "150", "">>,
      <<"Glucose Data", "Generated on 01-03-2024">>,
      <<>> }

\* rows of a Libre export before its header row: the two-cell line, a row
\* that reads like a glucose record, a blank row
LibrePreambleRows ==
    { <<"Glucose Data", "Generated on 01-03-2024">>,
      <<"FreeStyle Libre", "01-01-2024 12:00 AM", "0", "150", "">>,
      <<>> }

DexcomHeader ==
    <<"Timestamp (YYYY-MM-DDThh:mm:ss)", "Event Type", "Glucose Value (mg/dL)">>

\* rows of a Dexcom export: the same readings, then a row of another event
\* type, a row whose glucose text is "Low", a row whose timestamp is not ISO,
\* a row cut off before its glucose cell, and a blank row.
DexcomRows ==
    { DexcomHeader,
      <<"2024-01-01T00:00:00", "EGV", "150">>,
      <<"2024-01-01T00:30:00", "EGV", "160">>,
      <<"2024-01-01T00:40:00", "EGV", "155">>,
      <<"2024-01-01T01:30:00", "EGV", "160">>,
      <<"2024-01-01T00:05:00", "EGV", "80">>,
      <<"2024-01-02T00:00:00", "EGV", "140">>,
      <<"2024-01-01T00:05:00", "Calibration", "150">>,
      <<"2024-01-01T00:05:00", "EGV", "Low">>,
      <<"01-01-2024 12:40 AM", "EGV", "150">>,
      <<"2024-01-01T00:00:00", "EGV">>,
      <<>> }

\* inputs of calculate_grade: tenths, tenths, hundredths
AverageInputs == {0, 999, 1000, 1001, 1099, 1100, 1101, 1500}

StdDevInputs == {0, 149, 150, 151, 199, 200, 201}

SpikesInputs == {0, 99, 100, 101, 199, 200, 201}

-----------------------------------------------------------------------------
(* The analyzer *)

Init ==
    /\ pc = "idle" /\ runs = 0 /\ nread = 0
    /\ parser = None /\ rows = <<>>
    /\ glucose_values = <<>> /\ dates = {}
    /\ high_glucose_count = 0 /\ high_glucose_periods = 0
    /\ in_high_glucose_period = FALSE /\ last_high_glucose_time = NoTime
    /\ skip = TRUE /\ header = <<>>
    /\ reached = "init" /\ error = None
    /\ metrics = EmptyDict /\ chart = <<>> /\ result_label = EmptyDict
    /\ gpc = "off" /\ avg_glucose = 0 /\ std_dev = 0 /\ spikes_per_day = 0
    /\ grade_tot = 0 /\ grade = None

SetLocals(s) ==
    /\ glucose_values' = s.glucose_values
    /\ dates' = s.dates
    /\ high_glucose_count' = s.high_glucose_count
    /\ high_glucose_periods' = s.high_glucose_periods
    /\ in_high_glucose_period' = s.in_high_glucose_period
    /\ last_high_glucose_time' = s.last_high_glucose_time
    /\ skip' = s.skip
    /\ header' = s.header

\* analyze_data up to the first row of the file: the early returns, the
\* choice of the parser, parse's initial locals and open()
AnalyzeDataStart ==
    /\ pc = "idle" /\ runs < MaxRuns
    /\ runs' = runs + 1
    /\ rows' = <<>> /\ metrics' = EmptyDict
    /\ UNCHANGED <<nread, chart, result_label, grade_frame>>
    /\ \E file_path \in FilePaths :
         IF file_path = None
         THEN /\ reached' = "return_no_file" /\ error' = None
              /\ pc' = "idle" /\ parser' = None
              /\ UNCHANGED parse_locals
         ELSE \E toggle \in Toggles :
                LET active == IF toggle = "dexcom" THEN "dexcom"
                              ELSE IF toggle = "libre" THEN "libre"
                              ELSE None
                IN  IF active = None
                    THEN /\ reached' = "return_no_parser" /\ error' = None
                         /\ pc' = "idle" /\ parser' = None
                         /\ UNCHANGED parse_locals
                    ELSE /\ parser' = active
                         /\ SetLocals(IF active = "libre" THEN LibreLocals
                                      ELSE DexcomLocals)
                         /\ reached' = "parse"
                         /\ IF file_path = "missing.csv"
                            THEN pc' = "idle" /\ error' = "FileNotFoundError"
                            ELSE pc' = "rows" /\ error' = None

\* the csv reader yields one more row and LibreParser.parse's loop handles it;
\* an exception leaves parse and is caught and printed by analyze_data.  The
\* files read are preamble rows, the header row, then rows of LibreRows.
LibreParseRow ==
    /\ pc = "rows" /\ parser = "libre" /\ nread < MaxRows
    /\ \E row \in (IF skip THEN LibrePreambleRows \cup {LibreHeader} ELSE LibreRows) :
         LET r == LibreRow(Locals, row)
         IN  /\ rows' = Append(rows, row)
             /\ SetLocals(r.val)
             /\ error' = r.exc
             /\ pc' = IF r.exc = None THEN "rows" ELSE "idle"
    /\ nread' = nread + 1
    /\ UNCHANGED <<runs, parser, reached, metrics, chart, result_label, grade_frame>>

\* the same for DexcomParser.parse
DexcomParseRow ==
    /\ pc = "rows" /\ parser = "dexcom" /\ nread < MaxRows
    /\ \E row \in DexcomRows :
         LET r == DexcomRow(Locals, Len(rows), row)
         IN  /\ rows' = Append(rows, row)
             /\ SetLocals(r.val)
             /\ error' = r.exc
             /\ pc' = IF r.exc = None THEN "rows" ELSE "idle"
    /\ nread' = nread + 1
    /\ UNCHANGED <<runs, parser, reached, metrics, chart, result_label, grade_frame>>

\* the file ends: parse returns and analyze_data computes the metrics, plots
\* and displays them, or catches and prints what one of them raises
AnalyzeDataFinish ==
    /\ pc = "rows"
    /\ pc' = "idle"
    /\ LET data    == GlucoseData(Locals)
           m       == CalculateMetrics(data)
           plotted == PlotData(data, m)
           shown   == DisplayResults(m)
       IN  /\ metrics' = m
           /\ IF plotted.exc # None
              THEN /\ reached' = "plot_data" /\ error' = plotted.exc
                   /\ UNCHANGED <<chart, result_label>>
              ELSE /\ chart' = plotted.val
                   /\ IF shown.exc # None
                      THEN /\ reached' = "display_results" /\ error' = shown.exc
                           /\ UNCHANGED result_label
                      ELSE /\ reached' = "done" /\ error' = None
                           /\ result_label' = shown.val
    /\ UNCHANGED <<runs, nread, parser, rows, parse_locals, grade_frame>>

Next ==
    \/ AnalyzeDataStart
    \/ LibreParseRow
    \/ DexcomParseRow
    \/ AnalyzeDataFinish

Spec == Init /\ [][Next]_vars

-----------------------------------------------------------------------------
(* What analyze_data prints *)

\* str(e) for the exceptions that reach analyze_data's handler: open() on the
\* missing path, min() of no values, row[i] past the end of a row, int(None),
\* row["Event Type"] under fieldnames without it
ExceptionText(e) ==
    CASE e = "FileNotFoundError" -> "[Errno 2] No such file or directory: 'missing.csv'"
      [] e = "ValueError"        -> "min() arg is an empty sequence"
      [] e = "IndexError"        -> "list index out of range"
      [] e = "TypeError"         -> "int() argument must be a string, a bytes-like object or a real number, not 'NoneType'"
      [] e = "KeyError"          -> "'Event Type'"
      [] OTHER                   -> e

\* mutant: the handler prints no more than its fixed text
PrintedLine_FixedText(e) == <<"Error analyzing data">>

\* print(f"Error analyzing data: {e}"), the fixed text and then str(e)
PrintedLine(e) == <<"Error analyzing data: ", ExceptionText(e)>>

\* the line this run of analyze_data has printed, <<>> for none
Printed ==
    IF reached = "return_no_parser" THEN <<"Please select a CGM type">>
    ELSE IF error # None THEN PrintedLine(error)
    ELSE <<>>

-----------------------------------------------------------------------------
(* calculate_grade on its own, statement by statement *)

InitGrade ==
    /\ pc = "idle" /\ runs = 0 /\ nread = 0
    /\ parser = None /\ rows = <<>>
    /\ glucose_values = <<>> /\ dates = {}
    /\ high_glucose_count = 0 /\ high_glucose_periods = 0
    /\ in_high_glucose_period = FALSE /\ last_high_glucose_time = NoTime
    /\ skip = TRUE /\ header = <<>>
    /\ reached = "init" /\ error = None
    /\ metrics = EmptyDict /\ chart = <<>> /\ result_label = EmptyDict
    /\ gpc = "average"
    /\ avg_glucose \in AverageInputs
    /\ std_dev \in StdDevInputs
    /\ spikes_per_day \in SpikesInputs
    /\ grade_tot = 0 /\ grade = None

analysis_vars == <<pc, runs, nread, parser, rows, parse_locals, reached, error,
                   metrics, chart, result_label>>

\* the if chain on avg_glucose
ScoreAverage ==
    /\ gpc = "average"
    /\ grade_tot' = grade_tot + AverageScore(avg_glucose)
    /\ gpc' = "std_dev"
    /\ UNCHANGED <<analysis_vars, avg_glucose, std_dev, spikes_per_day, grade>>

\* the if chain on std_dev
ScoreStdDev ==
    /\ gpc = "std_dev"
    /\ grade_tot' = grade_tot + StdDevScore(std_dev)
    /\ gpc' = "spikes"
    /\ UNCHANGED <<analysis_vars, avg_glucose, std_dev, spikes_per_day, grade>>

\* the if chain on spikes_per_day
ScoreSpikes ==
    /\ gpc = "spikes"
    /\ grade_tot' = grade_tot + SpikesScore(spikes_per_day)
    /\ gpc' = "total"
    /\ UNCHANGED <<analysis_vars, avg_glucose, std_dev, spikes_per_day, grade>>

\* the if chain on grade_tot and the return
ReturnGrade ==
    /\ gpc = "total"
    /\ grade' = GradeOf(grade_tot)
    /\ gpc' = "returned"
    /\ UNCHANGED <<analysis_vars, avg_glucose, std_dev, spikes_per_day, grade_tot>>

NextGrade ==
    \/ ScoreAverage
    \/ ScoreStdDev
    \/ ScoreSpikes
    \/ ReturnGrade

SpecGrade == InitGrade /\ [][NextGrade]_vars

-----------------------------------------------------------------------------
(* What the rows read so far say, read off their cells.  A Libre row holds   *)
(* device, timestamp, record type, historic and scan glucose; a Dexcom row   *)
(* holds timestamp, event type and glucose.                                  *)

LibreFormats == {"%m-%d-%Y %I:%M %p", "%m/%d/%Y %H:%M", "%m/%d/%y %H:%M"}

\* row i comes after the header and has all its cells
IsFullRow(i) ==
    IF parser = "libre"
    THEN /\ Len(rows[i]) >= Len(LibreHeader)
         /\ rows[i][1] # "Device"
         /\ \E j \in 1..(i - 1) : rows[j] = LibreHeader
    ELSE /\ parser = "dexcom"
         /\ i > 1 /\ rows[1] = DexcomHeader
         /\ Len(rows[i]) >= Len(DexcomHeader)

RecordTypeAt(i) == IF parser = "libre" THEN rows[i][3] ELSE rows[i][2]

GlucoseTextAt(i) ==
    IF parser = "libre"
    THEN (IF rows[i][4] # "" THEN rows[i][4] ELSE rows[i][5])
    ELSE rows[i][3]

TimeTextAt(i) == IF parser = "libre" THEN rows[i][2] ELSE rows[i][1]

\* the instants the timestamp text of row i denotes in the device's formats
TimesAt(i) ==
    IF parser = "libre"
    THEN {Strptime(TimeTextAt(i), f).val :
            f \in {g \in LibreFormats : Strptime(TimeTextAt(i), g).exc = None}}
    ELSE {FromIsoFormat(TimeTextAt(i)).val :
            x \in {y \in {0} : FromIsoFormat(TimeTextAt(i)).exc = None}}

\* row i is a glucose record with an integer value
IsValueRow(i) ==
    /\ IsFullRow(i)
    /\ RecordTypeAt(i) = (IF parser = "libre" THEN "0" ELSE "EGV")
    /\ PyInt(GlucoseTextAt(i)).exc = None

\* row i is filtered out by its record type
IsFilteredRow(i) ==
    /\ IsFullRow(i)
    /\ RecordTypeAt(i) # (IF parser = "libre" THEN "0" ELSE "EGV")

\* row i survives as a Reading
IsReadingRow(i) == IsValueRow(i) /\ TimesAt(i) # {}

\* row i is a glucose record whose timestamp fails to parse
IsBadTimestampRow(i) == IsValueRow(i) /\ TimesAt(i) = {}

ReadingAt(i) ==
    [value |-> PyInt(GlucoseTextAt(i)).val, instant |-> CHOOSE t \in TimesAt(i) : TRUE]

RECURSIVE ReadingsTo(_)
\* the Readings of rows 1..n, in stream order
ReadingsTo(n) ==
    IF n = 0 THEN <<>>
    ELSE IF IsReadingRow(n) THEN Append(ReadingsTo(n - 1), ReadingAt(n))
    ELSE ReadingsTo(n - 1)

Readings == ReadingsTo(Len(rows))

Reading(v, t) == [value |-> v, instant |-> t]

\* the row read last
IsLastReading == rows # <<>> /\ IsReadingRow(Len(rows))

LastReading == ReadingAt(Len(rows))

\* a row has just been read: the step from the unprimed to the primed state
RowRead == pc = "rows" /\ Len(rows') = Len(rows) + 1

-----------------------------------------------------------------------------
(* C1 *)

\* C1: after every processed row, of either decoder, the summary has
\* episode_count <= high_count and high_count <= len(values).
C1_CountsOrdered ==
    /\ high_glucose_periods <= high_glucose_count
    /\ high_glucose_count <= Len(glucose_values)

\* a run that has skipped a row and has counted fewer episodes than high
\* readings and fewer high readings than values
C1_Witness ==
    /\ pc = "rows"
    /\ \E i \in 1..Len(rows) : IsBadTimestampRow(i)
    /\ 0 < high_glucose_periods
    /\ high_glucose_periods < high_glucose_count
    /\ high_glucose_count < Len(glucose_values)

-----------------------------------------------------------------------------
(* C2 *)

\* C2: when a high reading directly follows a high reading in the stream,
\* it counts one more high reading, and it starts a new episode exactly when
\* it is at least one hour after the first; so [150@t0, 160@t0+30min] gives
\* 1 episode and 2 high readings, [150@t0, 160@t0+90min] gives 2 and 2, and
\* a gap of exactly one hour (t0+30min, t0+90min) starts a new episode.
C2_ConsecutiveHighs ==
    [][ /\ (/\ RowRead
            /\ Readings # <<>>
            /\ Readings[Len(Readings)].value >= HighGlucose
            /\ IsLastReading'
            /\ LastReading'.value >= HighGlucose)
           => LET gap == LastReading'.instant - Readings[Len(Readings)].instant
              IN  /\ in_high_glucose_period
                  /\ high_glucose_count' = high_glucose_count + 1
                  /\ high_glucose_periods' =
                        high_glucose_periods + (IF gap >= Hour THEN 1 ELSE 0)
        /\ (Readings' = <<Reading(150, 0), Reading(160, 30)>>
              => high_glucose_periods' = 1 /\ high_glucose_count' = 2)
        /\ (Readings' = <<Reading(150, 0), Reading(160, 90)>>
              => high_glucose_periods' = 2 /\ high_glucose_count' = 2)
        /\ (Readings' = <<Reading(160, 30), Reading(160, 90)>>
              => high_glucose_periods' = 2 /\ high_glucose_count' = 2)
      ]_vars

\* runs that have read two high readings 30, 60 and 90 minutes apart
C2_Witness ==
    /\ Readings \in {<<Reading(150, 0), Reading(160, 30)>>,
                     <<Reading(160, 30), Reading(160, 90)>>,
                     <<Reading(150, 0), Reading(160, 90)>>}
    /\ high_glucose_count = 2

-----------------------------------------------------------------------------
(* C3 *)

-----------------------------------------------------------------------------
(* C4 *)

\* C4: no row with cells is fatal: whatever is malformed or missing in it,
\* the loop goes on to the next row.
C4_RowErrorNeverFatal ==
    [][ (RowRead /\ rows'[Len(rows')] # <<>>) => pc' = "rows" ]_vars

-----------------------------------------------------------------------------
(* C5 *)

RECURSIVE IsSubsequence(_, _)
\* the entries of a occur in b, in order
IsSubsequence(a, b) ==
    IF a = <<>> THEN TRUE
    ELSE IF b = <<>> THEN FALSE
    ELSE IF Head(a) = Head(b) THEN IsSubsequence(Tail(a), Tail(b))
    ELSE IsSubsequence(a, Tail(b))

ReadingValues == [k \in 1..Len(Readings) |-> Readings[k].value]

\* the file so far is a header and then only valid rows and rows whose
\* timestamp fails to parse, at least one of these
HasOnlyValidAndBadTimestampRows ==
    /\ parser \in {"libre", "dexcom"}
    /\ rows # <<>>
    /\ rows[1] = (IF parser = "libre" THEN LibreHeader ELSE DexcomHeader)
    /\ \A i \in 2..Len(rows) : IsReadingRow(i) \/ IsBadTimestampRow(i)
    /\ \E i \in 2..Len(rows) : IsBadTimestampRow(i)

\* C5: a row whose timestamp fails to parse does not abort the file: parse
\* is not left by an exception, and every valid row before and after it has
\* its value in values, its date in distinct_days and, when high, one count
\* in high_count.
C5_BadTimestampNotFatal ==
    HasOnlyValidAndBadTimestampRows =>
        /\ pc = "rows" \/ reached \in {"plot_data", "display_results", "done"}
        /\ IsSubsequence(ReadingValues, glucose_values)
        /\ dates = {DateOf(Readings[k].instant) : k \in 1..Len(Readings)}
        /\ high_glucose_count =
              Cardinality({k \in 1..Len(Readings) : Readings[k].value >= HighGlucose})

\* a finished run with a valid row before and a valid row after a row whose
\* timestamp failed to parse
C5_Witness ==
    /\ HasOnlyValidAndBadTimestampRows
    /\ pc = "idle" /\ reached = "done"
    /\ \E i, j, k \in 2..Len(rows) :
          /\ i < j /\ j < k
          /\ IsReadingRow(i) /\ IsBadTimestampRow(j) /\ IsReadingRow(k)

-----------------------------------------------------------------------------
(* C6 *)

\* C6: a row skipped for its timestamp yields no Reading and changes nothing:
\* values holds exactly one entry per surviving reading.
C6_BadTimestampChangesNothing ==
    parser \in {"libre", "dexcom"} => glucose_values = ReadingValues

-----------------------------------------------------------------------------
(* C7 *)

\* parse has returned its summary in this run
ParseReturned ==
    pc = "idle" /\ reached \in {"plot_data", "display_results", "done"}

\* C7: a file with no valid reading is no error: the run completes and its
\* metrics are zeros.
C7_EmptyGivesZeros ==
    (ParseReturned /\ glucose_values = <<>>) =>
        /\ error = None
        /\ reached = "done"
        /\ DOMAIN metrics # {}
        /\ metrics.average_glucose = 0
        /\ metrics.glucose_std_dev = 0
        /\ metrics.average_spike_periods_per_day = 0

-----------------------------------------------------------------------------
(* C8 *)

\* rs with its row i removed
Without(rs, i) == SubSeq(rs, 1, i - 1) \o SubSeq(rs, i + 1, Len(rs))

\* the file ends here and parse has not been left by an exception
AtEndOfFile == parser \in {"libre", "dexcom"} /\ (pc = "rows" \/ ParseReturned)

\* C8: a row filtered out by its record type counts for nothing, wherever it
\* is: at end of file the summary is that of the file without the row.
C8_FilteredRowCountsForNothing ==
    AtEndOfFile =>
        \A i \in 1..Len(rows) :
            IsFilteredRow(i) =>
                LET r == Parse(parser, Without(rows, i))
                IN  r.exc = None /\ GlucoseData(r.val) = GlucoseData(Locals)

\* a finished run with a filtered row that carries a number between two readings
C8_Witness ==
    /\ ParseReturned /\ reached = "done"
    /\ \E i, j, k \in 2..Len(rows) :
          /\ i < j /\ j < k
          /\ IsReadingRow(i) /\ IsReadingRow(k)
          /\ IsFilteredRow(j) /\ PyInt(GlucoseTextAt(j)).exc = None

-----------------------------------------------------------------------------
(* C9, C10: under SpecGrade *)

\* the band of x for the thresholds t1 < t2
Band(x, t1, t2) ==
    CASE x < t1 -> 4
      [] t1 <= x /\ x < t2 -> 3
      [] t2 <= x -> 2

\* C9: each of the three sub-scores is 2, 3 or 4, the total is in 6..12, and
\* the grade is A for 12, B+ for 11, B for 10 and 9, B- for 8, C for 7 and 6;
\* the grade is A only when all three sub-scores are 4.
C9_TotalAndGrade ==
    [][ /\ gpc \in {"average", "std_dev", "spikes"}
           => grade_tot' - grade_tot \in {2, 3, 4}
        /\ gpc = "total"
           => /\ grade_tot \in 6..12
              /\ grade' = (CASE grade_tot = 12 -> "A"
                             [] grade_tot = 11 -> "B+"
                             [] grade_tot \in {9, 10} -> "B"
                             [] grade_tot = 8 -> "B-"
                             [] grade_tot \in {6, 7} -> "C")
              /\ grade' = "A" =>
                    /\ avg_glucose < 100 * 10
                    /\ std_dev < 15 * 10
                    /\ spikes_per_day < 1 * 100
      ]_vars

\* a call that returned B for a total of 10, its average on the threshold 100
C9_Witness ==
    /\ gpc = "returned"
    /\ grade = "B" /\ grade_tot = 10
    /\ avg_glucose = 100 * 10

\* C10: the bands are inclusive on their lower bound and do not overlap: an
\* average of 100 scores 3 and 99.9 scores 4, 110 scores 2; a deviation of 15
\* scores 3 and 20 scores 2; 1 spike per day scores 3 and 2 score 2; every
\* input gets the one sub-score of its band.
C10_BandsInclusiveBelow ==
    [][ /\ gpc = "average"
           => /\ grade_tot' - grade_tot = Band(avg_glucose, 100 * 10, 110 * 10)
              /\ avg_glucose = 1000 => grade_tot' - grade_tot = 3
              /\ avg_glucose = 999 => grade_tot' - grade_tot = 4
              /\ avg_glucose = 1100 => grade_tot' - grade_tot = 2
        /\ gpc = "std_dev"
           => /\ grade_tot' - grade_tot = Band(std_dev, 15 * 10, 20 * 10)
              /\ std_dev = 150 => grade_tot' - grade_tot = 3
              /\ std_dev = 200 => grade_tot' - grade_tot = 2
        /\ gpc = "spikes"
           => /\ grade_tot' - grade_tot = Band(spikes_per_day, 1 * 100, 2 * 100)
              /\ spikes_per_day = 100 => grade_tot' - grade_tot = 3
              /\ spikes_per_day = 200 => grade_tot' - grade_tot = 2
      ]_vars

\* a call whose three inputs sit on the lower thresholds and score 3 each
C10_Witness ==
    /\ gpc = "total"
    /\ avg_glucose = 1000 /\ std_dev = 150 /\ spikes_per_day = 100
    /\ grade_tot = 9

-----------------------------------------------------------------------------
(* C11 *)

\* C11: whenever parse returns a summary with no distinct day, with values or
\* without, the metrics computed from it hold spikes_per_day = 0.
C11_NoDaysGivesZeroSpikes ==
    (ParseReturned /\ dates = {}) =>
        /\ "average_spike_periods_per_day" \in DOMAIN metrics
        /\ metrics.average_spike_periods_per_day = 0

-----------------------------------------------------------------------------
(* C12 *)

\* C12: a high reading whose instant is earlier than last_high_instant and
\* that directly follows a high reading continues the current episode: it
\* adds one to high_count, leaves episode_count as it is and sets
\* last_high_instant to its own, earlier, instant.
C12_OutOfOrderHighContinues ==
    [][ (/\ RowRead
         /\ Readings # <<>>
         /\ Readings[Len(Readings)].value >= HighGlucose
         /\ IsLastReading'
         /\ LastReading'.value >= HighGlucose
         /\ LastReading'.instant < last_high_glucose_time)
        => /\ in_high_glucose_period /\ in_high_glucose_period'
           /\ high_glucose_count' = high_glucose_count + 1
           /\ high_glucose_periods' = high_glucose_periods
           /\ last_high_glucose_time' = LastReading'.instant
           /\ last_high_glucose_time' < last_high_glucose_time
      ]_vars

\* a run that read a high reading at 1:30 and then a high reading at 0:30,
\* one hour earlier, and has counted one episode
C12_Witness ==
    /\ Readings = <<Reading(160, 90), Reading(160, 30)>>
    /\ rows # <<>> /\ IsReadingRow(Len(rows))
    /\ high_glucose_count = 2 /\ high_glucose_periods = 1
    /\ last_high_glucose_time = 30

-----------------------------------------------------------------------------
(* C13 *)

\* C13: a surviving reading below 140 sets in_episode to false and leaves
\* last_high_instant, high_count and episode_count as they are; besides that
\* it only appends its value to values and adds its date to distinct_days.
C13_LowReadingFrame ==
    [][ (/\ RowRead
         /\ IsLastReading'
         /\ LastReading'.value < HighGlucose)
        => /\ in_high_glucose_period' = FALSE
           /\ last_high_glucose_time' = last_high_glucose_time
           /\ high_glucose_count' = high_glucose_count
           /\ high_glucose_periods' = high_glucose_periods
           /\ glucose_values' = Append(glucose_values, LastReading'.value)
           /\ dates' = dates \cup {DateOf(LastReading'.instant)}
           /\ skip' = skip /\ header' = header
           /\ pc' = "rows" /\ error' = None
      ]_vars

\* a run whose last row was a reading of 80 that ended the episode of a high
\* reading, the instant of the high reading still remembered
C13_Witness ==
    /\ rows # <<>> /\ IsReadingRow(Len(rows))
    /\ Len(Readings) >= 2
    /\ Readings[Len(Readings)].value = 80
    /\ Readings[Len(Readings) - 1].value >= HighGlucose
    /\ ~in_high_glucose_period
    /\ last_high_glucose_time = Readings[Len(Readings) - 1].instant
    /\ high_glucose_periods = 1

-----------------------------------------------------------------------------
(* C14 *)

\* row i is the marker row: its first column is "Device"
IsMarkerRow(i) == Len(rows[i]) > 0 /\ rows[i][1] = "Device"

\* C14: in the Libre decoder the rows before the first "Device" row are
\* preamble and are skipped whatever they hold, a blank row included: the
\* summary stays empty and parse is not left by an exception; the "Device"
\* row becomes the header and is not decoded as a reading.
C14_PreambleSkipped ==
    (/\ parser = "libre" /\ rows # <<>>
     /\ \A i \in 1..(Len(rows) - 1) : ~IsMarkerRow(i))
    => /\ AtEndOfFile
       /\ GlucoseData(Locals) = GlucoseData(LibreLocals)
       /\ IF IsMarkerRow(Len(rows))
          THEN ~skip /\ header = rows[Len(rows)]
          ELSE skip

-----------------------------------------------------------------------------
(* C15 *)

\* this run ended at open(): the file is missing
IsFileFailure == pc = "idle" /\ reached = "parse" /\ rows = <<>> /\ error # None

\* this run parsed its file to the end and found no value
IsEmptyDataRun == ParseReturned /\ glucose_values = <<>>

\* C15: a run whose file cannot be opened ends with no metrics, and with the
\* chart and the result text as they were before it; what it reports, the
\* line for the failure of open(), is not what a run reports whose file was
\* parsed to its end and held no data.
C15_FileFailureDistinct ==
    [][ /\ (pc = "idle" /\ IsFileFailure')
           => /\ metrics' = EmptyDict
              /\ chart' = chart /\ result_label' = result_label
              /\ Printed' = PrintedLine("FileNotFoundError")
        /\ (pc = "rows" /\ IsEmptyDataRun')
           => /\ Printed' # PrintedLine("FileNotFoundError")
              /\ chart' = chart /\ result_label' = result_label
      ]_vars

\* a run on a missing file after a run that drew a chart and showed results
C15_Witness ==
    /\ IsFileFailure /\ runs = 2
    /\ error = "FileNotFoundError"
    /\ chart # <<>> /\ DOMAIN result_label # {}
    /\ metrics = EmptyDict

-----------------------------------------------------------------------------
(* C16 *)

\* a tracker that has seen nothing, with the decoder's own locals before its
\* first row
FreshTracker(p) ==
    [glucose_values |-> <<>>, dates |-> {},
     high_glucose_count |-> 0, high_glucose_periods |-> 0,
     in_high_glucose_period |-> FALSE, last_high_glucose_time |-> NoTime,
     skip |-> (p = "libre"), header |-> <<>>]

\* the summary of the rows rs decoded from a fresh tracker
SummaryFromFresh(p, rs) ==
    IF p = "libre" THEN LibreParse(FreshTracker(p), rs)
    ELSE DexcomParse(FreshTracker(p), 0, rs)

\* C16: no tracker state passes from one run to the next.  Every call of
\* parse starts with empty values, no distinct day, high_count = 0,
\* episode_count = 0, in_episode false and last_high_instant unset; so the
\* summary of a run is that of its own file decoded from a fresh tracker,
\* whatever run came before it on the same parser, finished or aborted.
C16_FreshTrackerEachRun ==
    /\ (pc = "rows" /\ rows = <<>>)
       => /\ glucose_values = <<>> /\ dates = {}
          /\ high_glucose_count = 0 /\ high_glucose_periods = 0
          /\ in_high_glucose_period = FALSE
          /\ last_high_glucose_time = NoTime
    /\ AtEndOfFile
       => LET r == SummaryFromFresh(parser, rows)
          IN  r.exc = None /\ GlucoseData(r.val) = GlucoseData(Locals)

\* a second run that has read a reading of its own file, after a first run
\* that counted a high reading and drew its chart
C16_Witness ==
    /\ runs = 2 /\ pc = "rows"
    /\ chart # <<>> /\ result_label.high_glucose_count > 0
    /\ glucose_values # <<>> /\ glucose_values # chart
    /\ nread > Len(rows)

-----------------------------------------------------------------------------
(* C17 *)

\* reading k of stream is high and starts an episode by the rule: no
\* reading before it, or a reading below 140 before it, or a high reading at
\* least one hour earlier before it
StartsEpisode(stream, k) ==
    /\ stream[k].value >= HighGlucose
    /\ \/ k = 1
       \/ stream[k - 1].value < HighGlucose
       \/ stream[k].instant - stream[k - 1].instant >= Hour

\* C17: after every processed row in_episode is true exactly when the most
\* recent surviving reading was high, and last_high_instant is then that
\* reading's instant; episode_count is the number of high readings whose
\* preceding surviving reading is absent, below 140, or high and at least one
\* hour earlier; episode_count = 0 exactly when high_count = 0.
C17_EpisodeCharacterised ==
    parser \in {"libre", "dexcom"} =>
        LET stream == Readings
            n      == Len(stream)
        IN  /\ in_high_glucose_period <=> (n > 0 /\ stream[n].value >= HighGlucose)
            /\ in_high_glucose_period => last_high_glucose_time = stream[n].instant
            /\ high_glucose_periods =
                  Cardinality({k \in 1..n : StartsEpisode(stream, k)})
            /\ high_glucose_periods = 0 <=> high_glucose_count = 0

\* a run that read a high reading, a reading below 140 and a high reading
\* again, with a row skipped for its timestamp somewhere among them
C17_Witness ==
    /\ pc = "rows"
    /\ Len(Readings) = 2
    /\ Readings[1].value >= HighGlucose /\ Readings[2].value < HighGlucose
    /\ \E i \in 1..Len(rows) : IsBadTimestampRow(i)
    /\ ~in_high_glucose_period
    /\ high_glucose_periods = 1 /\ last_high_glucose_time # NoTime

-----------------------------------------------------------------------------
(* C18 *)

\* the outcome of row i for the tracker: "filtered", "bad_value",
\* "bad_timestamp" with the value, "reading" with value and instant, or
\* "none" for a row that is no record (header, preamble, blank, cut off)
OutcomeAt(i) ==
    IF ~IsFullRow(i) THEN [kind |-> "none", value |-> 0, instant |-> 0]
    ELSE IF RecordTypeAt(i) # (IF parser = "libre" THEN "0" ELSE "EGV")
    THEN [kind |-> "filtered", value |-> 0, instant |-> 0]
    ELSE LET g     == PyInt(GlucoseTextAt(i))
             times == TimesAt(i)
         IN  IF g.exc # None
             THEN [kind |-> "bad_value", value |-> 0, instant |-> 0]
             ELSE IF times = {}
             THEN [kind |-> "bad_timestamp", value |-> g.val, instant |-> 0]
             ELSE [kind |-> "reading", value |-> g.val,
                   instant |-> CHOOSE t \in times : TRUE]

RECURSIVE OutcomesTo(_)
\* the outcomes of rows 1..n, in order, the rows that are no record left out
OutcomesTo(n) ==
    IF n = 0 THEN <<>>
    ELSE LET o == OutcomeAt(n)
         IN  IF o.kind = "none" THEN OutcomesTo(n - 1)
             ELSE Append(OutcomesTo(n - 1), o)

Outcomes == OutcomesTo(Len(rows))

\* the text of a value
IntText(v) ==
    CASE v = 80 -> "80" [] v = 140 -> "140" [] v = 150 -> "150"
      [] v = 155 -> "155" [] v = 160 -> "160"

\* the text of an instant in a Libre export
LibreTimeText(t) ==
    CASE t = 0 -> "01-01-2024 12:00 AM"
      [] t = 5 -> "01-01-2024 12:05 AM"
      [] t = 30 -> "01/01/2024 00:30"
      [] t = 40 -> "01/01/24 00:40"
      [] t = 90 -> "01/01/2024 01:30"
      [] t = MinutesPerDay -> "01-02-2024 12:00 AM"

\* the text of an instant in a Dexcom export
DexcomTimeText(t) ==
    CASE t = 0 -> "2024-01-01T00:00:00"
      [] t = 5 -> "2024-01-01T00:05:00"
      [] t = 30 -> "2024-01-01T00:30:00"
      [] t = 40 -> "2024-01-01T00:40:00"
      [] t = 90 -> "2024-01-01T01:30:00"
      [] t = MinutesPerDay -> "2024-01-02T00:00:00"

\* a Libre row with the outcome o
LibreRowFor(o) ==
    CASE o.kind = "filtered" ->
           <<"FreeStyle Libre", "01-01-2024 12:05 AM", "6", "150", "">>
      [] o.kind = "bad_value" ->
           <<"FreeStyle Libre", "01-01-2024 12:05 AM", "0", "", "">>
      [] o.kind = "bad_timestamp" ->
           <<"FreeStyle Libre", "2024-01-01T00:40:00", "0", IntText(o.value), "">>
      [] o.kind = "reading" ->
           <<"FreeStyle Libre", LibreTimeText(o.instant), "0", IntText(o.value), "">>

\* a Dexcom row with the outcome o
DexcomRowFor(o) ==
    CASE o.kind = "filtered" -> <<"2024-01-01T00:05:00", "Calibration", "150">>
      [] o.kind = "bad_value" -> <<"2024-01-01T00:05:00", "EGV", "Low">>
      [] o.kind = "bad_timestamp" -> <<"01-01-2024 12:40 AM", "EGV", IntText(o.value)>>
      [] o.kind = "reading" -> <<DexcomTimeText(o.instant), "EGV", IntText(o.value)>>

\* the file of the other device with the same outcomes, row for row
FileOfOther ==
    LET os == Outcomes
    IN  IF parser = "libre"
        THEN <<DexcomHeader>> \o [k \in 1..Len(os) |-> DexcomRowFor(os[k])]
        ELSE <<LibreHeader>> \o [k \in 1..Len(os) |-> LibreRowFor(os[k])]

\* C18: the two decoders run the same episode tracker: on the same sequence
\* of row outcomes (filtered row, unparseable value, value with unparseable
\* timestamp, reading) they hold the same values, distinct_days, high_count
\* and episode_count after every row.
C18_DecodersAgree ==
    AtEndOfFile =>
        LET file == FileOfOther
            r    == Parse(IF parser = "libre" THEN "dexcom" ELSE "libre", file)
        IN  r.exc = None /\ GlucoseData(r.val) = GlucoseData(Locals)

\* a Libre run over a reading of exactly 140, a row skipped for its
\* timestamp and a row skipped before its value was read
C18_Witness ==
    /\ parser = "libre" /\ pc = "rows"
    /\ Len(Outcomes) = 3
    /\ \E i, j, k \in 1..3 :
          /\ Outcomes[i].kind = "reading" /\ Outcomes[i].value = HighGlucose
          /\ Outcomes[j].kind = "bad_timestamp"
          /\ Outcomes[k].kind \in {"filtered", "bad_value"}
    /\ high_glucose_count = 1 /\ Len(glucose_values) = 2

====
